---- MODULE Spec2Model ----
(***************************************************************************)
(* A model of lib/sqlalchemy/dialects/postgresql/ext.py: the constructors  *)
(* of aggregate_order_by, ExcludeConstraint, the regconfig function family *)
(* and DistinctOnClause, with the attachment operations of the constraint  *)
(* (_set_parent, _copy) and of the DISTINCT ON extension (apply_to_select).*)
(***************************************************************************)
EXTENDS Integers, Sequences, FiniteSets, TLC

VARIABLES
    fn,          \* the function node built by the last regconfig-family call
    agg,         \* the outcome of the last aggregate_order_by(...) call
    stmt,        \* the SELECT statement: _distinct, _distinct_on, pre_columns
    applied,     \* history: the target tuples of the successful apply_to_select calls
    constraints, \* the ExcludeConstraint objects built so far
    tables,      \* table name -> the constraints in table.constraints
    call         \* the last call made and how it ended

vars == <<fn, agg, stmt, applied, constraints, tables, call>>

None == "None"

----------------------------------------------------------------------------
(* Bounds of the model.                                                     *)

MaxArgs == 3
MaxOrderBy == 3

----------------------------------------------------------------------------
(* Expression arguments and coercion.                                       *)

\* Plain Python values a caller passes: they carry no SQL type yet.
ArgLiterals == {[kind |-> "literal", val |-> v, type |-> None] : v \in {"english", "text"}}

\* Arguments that already are ColumnElement objects, with their type.
ArgColumns ==
    {[kind |-> "column", val |-> "doc", type |-> "String"],
     [kind |-> "column", val |-> "query", type |-> "TSQUERY"]}

Args == ArgLiterals \cup ArgColumns

RECURSIVE SeqsUpTo(_, _)
SeqsUpTo(S, n) ==
    IF n = 0 THEN {<<>>}
    ELSE LET shorter == SeqsUpTo(S, n - 1)
         IN shorter \cup {Append(s, x) : s \in {t \in shorter : Len(t) = n - 1}, x \in S}

ArgSeqs == SeqsUpTo(Args, MaxArgs)
OrderBySeqs == SeqsUpTo(Args, MaxOrderBy)

isColumnElement(e) == e.kind \in {"column", "bindparam"}

\* coercions.expect(roles.ExpressionElementRole, element, type_=...): a plain
\* value becomes a bound literal of type type_ (of the value's own type when
\* no type_ is given); an element that is a node already is returned as it is.
expect(element, type_) ==
    IF element.kind = "literal"
    THEN [kind |-> "bindparam", val |-> element.val,
          type |-> IF type_ # None THEN type_ ELSE "String"]
    ELSE element

\* GenericFunction.__init__(*args): coerces each argument in order and keeps
\* them as the function's clauses.
GenericFunction_init(args) == [i \in 1..Len(args) |-> expect(args[i], None)]

\* elements.ClauseList(*clauses, _literal_as_text_role=ExpressionElementRole)
ClauseList(clauses) ==
    [kind |-> "ClauseList",
     clauses |-> [i \in 1..Len(clauses) |-> expect(clauses[i], None)]]

----------------------------------------------------------------------------
(* aggregate_order_by                                                       *)

NoNode == [kind |-> None]

aggregate_order_by_init_list(target, order_by) ==
    LET self_target == expect(target, None)
        self_type == self_target.type
        _lob == Len(order_by)
    IN IF _lob = 0
       THEN [raised |-> "TypeError", node |-> NoNode]
       \* the single term is wrapped like several terms are
       ELSE [raised |-> None,
             node |-> [kind |-> "aggregate_order_by", target |-> self_target,
                       type |-> self_type, order_by |-> ClauseList(order_by)]]

\* aggregate_order_by.__init__(self, target, *order_by)
aggregate_order_by_init(target, order_by) ==
    LET self_target == expect(target, None)
        self_type == self_target.type
        _lob == Len(order_by)
    IN IF _lob = 0
       THEN [raised |-> "TypeError", node |-> NoNode]
       ELSE IF _lob = 1
       THEN [raised |-> None,
             node |-> [kind |-> "aggregate_order_by", target |-> self_target,
                       type |-> self_type,
                       order_by |-> expect(order_by[1], None)]]
       ELSE [raised |-> None,
             node |-> [kind |-> "aggregate_order_by", target |-> self_target,
                       type |-> self_type, order_by |-> ClauseList(order_by)]]

\* aggregate_order_by.get_children(self)
get_children(node) == <<node.target, node.order_by>>

----------------------------------------------------------------------------
(* The regconfig function family                                            *)

RegconfigFns ==
    {"to_tsvector", "to_tsquery", "plainto_tsquery", "phraseto_tsquery",
     "websearch_to_tsquery"}

_regconfig_fn_init_any(args) ==
    \* len(args) > 0 in place of len(args) > 1
    LET has == Len(args) > 0
        initial_arg == IF has THEN <<expect(Head(args), "REGCONFIG")>> ELSE <<>>
        rest == IF has THEN Tail(args) ELSE args
        addtl_args == [i \in 1..Len(rest) |-> expect(rest[i], None)]
    IN GenericFunction_init(initial_arg \o addtl_args)

\* _regconfig_fn.__init__(self, *args)
_regconfig_fn_init(args) ==
    LET has == Len(args) > 1
        initial_arg == IF has THEN <<expect(Head(args), "REGCONFIG")>> ELSE <<>>
        rest == IF has THEN Tail(args) ELSE args
        addtl_args == [i \in 1..Len(rest) |-> expect(rest[i], None)]
    IN GenericFunction_init(initial_arg \o addtl_args)

ts_headline_init_two_only(args) ==
    \* the tsquery test is made only when exactly two arguments are given
    LET has_regconfig ==
            IF Len(args) < 2 THEN FALSE
            ELSE IF Len(args) = 2 /\ isColumnElement(args[2]) /\ args[2].type = "TSQUERY"
                 THEN FALSE
                 ELSE TRUE
        initial_arg == IF has_regconfig THEN <<expect(Head(args), "REGCONFIG")>> ELSE <<>>
        rest == IF has_regconfig THEN Tail(args) ELSE args
        addtl_args == [i \in 1..Len(rest) |-> expect(rest[i], None)]
    IN _regconfig_fn_init(initial_arg \o addtl_args)

\* ts_headline.__init__(self, *args); its super().__init__ is
\* _regconfig_fn.__init__, which receives the coerced arguments.
ts_headline_init(args) ==
    LET has_regconfig ==
            IF Len(args) < 2 THEN FALSE
            ELSE IF isColumnElement(args[2]) /\ args[2].type = "TSQUERY"
                 THEN FALSE
                 ELSE TRUE
        initial_arg == IF has_regconfig THEN <<expect(Head(args), "REGCONFIG")>> ELSE <<>>
        rest == IF has_regconfig THEN Tail(args) ELSE args
        addtl_args == [i \in 1..Len(rest) |-> expect(rest[i], None)]
    IN _regconfig_fn_init(initial_arg \o addtl_args)

----------------------------------------------------------------------------
(* Tables, columns and the arguments of ExcludeConstraint.                  *)

MaxPairs == 2

Absent == "Absent"

TableNames == {"t1", "t2"}

\* table.c: the names of each table's columns.
TableCols == [t \in TableNames |-> IF t = "t1" THEN {"a", "b"} ELSE {"a"}]

Column(table, name) == [kind |-> "column", name |-> name, table |-> table]
StrName(name) == [kind |-> "str", name |-> name, table |-> None]
TextExpr == [kind |-> "text", name |-> None, table |-> None]
NoExpr == [kind |-> None, name |-> None, table |-> None]

\* The column side of a pair: a column name, a Column of a table, or a SQL
\* expression that holds no column.
ExprInputs == {StrName("a"), StrName("b"), Column("t1", "a"), TextExpr}

Operators == {"&&", "="}

Pairs == ExprInputs \X Operators

OpsGiven == {<<"a", "my_operator_class">>}

\* The keyword arguments: each either not given or given (ops: the mapping
\* given, which kw.get("ops", {}) makes empty when none is).
KwsAll ==
    [name : {Absent, "excl_const"}, deferrable : {Absent, "True"},
     initially : {Absent, "DEFERRED"}, using : {Absent, "btree"},
     where : {Absent, "a > 5"}, ops : {{}, OpsGiven}]

NoKw ==
    [name |-> Absent, deferrable |-> Absent, initially |-> Absent, using |-> Absent,
     where |-> Absent, ops |-> {}]

AllKw ==
    [name |-> "excl_const", deferrable |-> "True", initially |-> "DEFERRED",
     using |-> "btree", where |-> "a > 5", ops |-> OpsGiven]

\* The calls made: no keyword, exactly one keyword, or all of them.
Kws ==
    {kw \in KwsAll :
        \/ kw = AllKw
        \/ Cardinality({k \in {"name", "deferrable", "initially", "using", "where", "ops"} :
                           kw[k] # NoKw[k]}) <= 1}

\* kw.get(key) and kw.get(key, default)
kw_get(value, default) == IF value = Absent THEN default ELSE value

----------------------------------------------------------------------------
(* Initial state.                                                           *)

NoCall == [op |-> None, raised |-> None]

Init ==
    /\ fn = [name |-> None, args |-> <<>>, clauses |-> <<>>]
    /\ agg = [done |-> FALSE, target |-> NoNode, order_by |-> <<>>, raised |-> None,
              node |-> NoNode]
    /\ stmt = [_distinct |-> FALSE, _distinct_on |-> <<>>, pre_columns |-> <<>>]
    /\ applied = <<>>
    /\ constraints = <<>>
    /\ tables = [t \in TableNames |-> {}]
    /\ call = NoCall

----------------------------------------------------------------------------
(* Function construction.                                                   *)

Call_regconfig_fn ==
    \E name \in RegconfigFns, args \in ArgSeqs :
        /\ fn' = [name |-> name, args |-> args, clauses |-> _regconfig_fn_init(args)]
        /\ UNCHANGED <<agg, stmt, applied, constraints, tables, call>>

Call_ts_headline ==
    \E args \in ArgSeqs :
        /\ fn' = [name |-> "ts_headline", args |-> args, clauses |-> ts_headline_init(args)]
        /\ UNCHANGED <<agg, stmt, applied, constraints, tables, call>>

NextFn == Call_regconfig_fn \/ Call_ts_headline

SpecFn == Init /\ [][NextFn]_vars

Call_aggregate_order_by ==
    \E target \in Args, order_by \in OrderBySeqs :
        LET r == aggregate_order_by_init(target, order_by)
        IN /\ agg' = [done |-> TRUE, target |-> target, order_by |-> order_by,
                      raised |-> r.raised, node |-> r.node]
           /\ UNCHANGED <<fn, stmt, applied, constraints, tables, call>>

NextAgg == Call_aggregate_order_by

SpecAgg == Init /\ [][NextAgg]_vars

----------------------------------------------------------------------------
(* Properties of the function family and of aggregate_order_by.             *)

\* What coercion without a type override makes of an argument.
PlainCoerced(a) ==
    IF a.kind = "literal" THEN [kind |-> "bindparam", val |-> a.val, type |-> "String"]
    ELSE a

\* What coercion under the REGCONFIG override makes of an argument: only a
\* plain value can take the type, a node keeps its own.
RegconfigCoerced(a) ==
    IF a.kind = "literal" THEN [kind |-> "bindparam", val |-> a.val, type |-> "REGCONFIG"]
    ELSE a

IsTsqueryExpr(a) == a.kind = "column" /\ a.type = "TSQUERY"

\* The clauses c built from the arguments a: same count and order, argument 0
\* under the override exactly when `overridden`, every other argument plain.
ArgsCoerced(a, c, overridden) ==
    /\ Len(c) = Len(a)
    /\ \A i \in 1..Len(a) : c[i].val = a[i].val
    /\ \A i \in 2..Len(a) : c[i] = PlainCoerced(a[i])
    /\ Len(a) >= 1 =>
          c[1] = IF overridden THEN RegconfigCoerced(a[1]) ELSE PlainCoerced(a[1])

\* C7 as stated: ts_headline overrides argument 0 in every call with at least
\* 2 arguments except when exactly 2 are given and the second is typed as
\* tsquery; never with fewer than 2; nothing but argument 0 is touched.
C7_AsStated ==
    fn.name = "ts_headline" =>
        ArgsCoerced(fn.args, fn.clauses,
                    Len(fn.args) >= 2
                    /\ ~(Len(fn.args) = 2 /\ IsTsqueryExpr(fn.args[2])))

\* C7 amended: ts_headline overrides argument 0 in every call with at least 2
\* arguments except when the second argument is an expression typed as
\* tsquery, whatever the argument count; never with fewer than 2 arguments;
\* no other argument is touched and count and order are preserved.
C7_Headline ==
    fn.name = "ts_headline" =>
        ArgsCoerced(fn.args, fn.clauses,
                    Len(fn.args) >= 2 /\ ~IsTsqueryExpr(fn.args[2]))

C7_Witness ==
    /\ fn.name = "ts_headline"
    /\ Len(fn.args) = 3
    /\ fn.args[1].kind = "literal"
    /\ IsTsqueryExpr(fn.args[2])
    /\ fn.clauses[1].type = "String"

\* C8: for to_tsvector, to_tsquery, plainto_tsquery, phraseto_tsquery and
\* websearch_to_tsquery the REGCONFIG override is applied if and only if more
\* than one argument is supplied, and then to argument 0 only; the clauses
\* keep the count and order of the arguments.
C8_Regconfig ==
    fn.name \in RegconfigFns =>
        ArgsCoerced(fn.args, fn.clauses, Len(fn.args) > 1)

C8_Witness ==
    /\ fn.name \in RegconfigFns
    /\ Len(fn.args) = 2
    /\ fn.args[1].kind = "literal"
    /\ fn.args[2].kind = "literal"
    /\ fn.clauses[1].type = "REGCONFIG"
    /\ fn.clauses[2].type = "String"

\* C9: aggregate_order_by with zero order-by terms fails with TypeError; with
\* one term order_by is that coerced node, not a ClauseList; with two or more
\* it is a ClauseList of the terms in the given order; on success the node's
\* type is the target's type and get_children is (target, order_by).
C9_Arity ==
    agg.done =>
        LET n == Len(agg.order_by)
            node == agg.node
        IN /\ n = 0 => agg.raised = "TypeError" /\ node = NoNode
           /\ n >= 1 =>
                 /\ agg.raised = None
                 /\ node.target = PlainCoerced(agg.target)
                 /\ node.type = node.target.type
                 /\ get_children(node) = <<node.target, node.order_by>>
           /\ n = 1 =>
                 /\ node.order_by.kind # "ClauseList"
                 /\ node.order_by = PlainCoerced(agg.order_by[1])
           /\ n >= 2 =>
                 /\ node.order_by.kind = "ClauseList"
                 /\ Len(node.order_by.clauses) = n
                 /\ \A i \in 1..n : node.order_by.clauses[i] = PlainCoerced(agg.order_by[i])

C9_Witness ==
    /\ agg.done
    /\ Len(agg.order_by) = 1
    /\ agg.node.order_by.kind = "column"

----------------------------------------------------------------------------
(* DistinctOnClause and the SELECT statement it extends.                    *)

MaxApply == 3
MaxLegacy == 1

Cols == {"a", "b"}

\* The target tuples given to distinct_on(...): empty, single, several,
\* and one with a repeated target.
TargetTuples == {<<>>, <<"a">>, <<"b">>, <<"a", "b">>, <<"a", "a">>}

\* DistinctOnClause.__init__(self, distinct_on): the tuple of coerced targets.
DistinctOnClause(distinct_on) ==
    [kind |-> "DistinctOnClause", _distinct_on |-> distinct_on]

\* An element some other syntax extension put in the slot.
OtherClause == [kind |-> "OtherClause", _distinct_on |-> <<>>]

RECURSIVE Flatten(_)
Flatten(tuples) ==
    IF tuples = <<>> THEN <<>> ELSE Head(tuples) \o Flatten(Tail(tuples))

isDistinctOnClause(e) == e.kind = "DistinctOnClause"

_merge_other_distinct_no_merge(self, existing) ==
    \* the clause is appended without looking at what the slot holds
    Append(existing, self)

\* DistinctOnClause._merge_other_distinct(self, existing)
_merge_other_distinct(self, existing) ==
    LET to_merge ==
            Flatten([i \in 1..Len(SelectSeq(existing, isDistinctOnClause)) |->
                        SelectSeq(existing, isDistinctOnClause)[i]._distinct_on])
        res == SelectSeq(existing, LAMBDA e : ~isDistinctOnClause(e))
    IN IF to_merge # <<>>
       THEN Append(res, DistinctOnClause(to_merge \o self._distinct_on))
       ELSE Append(res, self)

\* Select.distinct(*expr), non-generative: marks the statement as DISTINCT and,
\* in its legacy form, adds expr to the statement's distinct-on columns.
Select_distinct(select_stmt, expr) ==
    [select_stmt EXCEPT !._distinct = TRUE, !._distinct_on = @ \o expr]

\* Select.apply_syntax_extension_point(apply_fn, "pre_columns"): the slot's new
\* contents are what the callback makes of its current contents.
apply_syntax_extension_point(select_stmt, self) ==
    [select_stmt EXCEPT !.pre_columns = _merge_other_distinct(self, @)]

apply_to_select_mark_first(self, select_stmt) ==
    \* the statement is marked and extended before the conflict is looked for
    LET marked == apply_syntax_extension_point(Select_distinct(select_stmt, <<>>), self)
    IN IF select_stmt._distinct_on # <<>>
       THEN [raised |-> "InvalidRequestError", select_stmt |-> marked]
       ELSE [raised |-> None, select_stmt |-> marked]

\* DistinctOnClause.apply_to_select(self, select_stmt): the exception raised,
\* if any, and the statement as the call leaves it.
apply_to_select(self, select_stmt) ==
    IF select_stmt._distinct_on # <<>>
    THEN [raised |-> "InvalidRequestError", select_stmt |-> select_stmt]
    ELSE [raised |-> None,
          select_stmt |->
              apply_syntax_extension_point(Select_distinct(select_stmt, <<>>), self)]

\* select_stmt.ext(distinct_on(*targets))
Ext_distinct_on ==
    \E targets \in TargetTuples :
        /\ Len(applied) < MaxApply
        /\ LET r == apply_to_select(DistinctOnClause(targets), stmt)
           IN /\ stmt' = r.select_stmt
              /\ applied' = IF r.raised = None THEN Append(applied, targets) ELSE applied
              /\ call' = [op |-> "apply_to_select", raised |-> r.raised]
        /\ UNCHANGED <<fn, agg, constraints, tables>>

\* select_stmt.distinct(col): the legacy distinct-on columns shortcut;
\* select_stmt.distinct(): the plain flag.
Legacy_distinct ==
    \E expr \in {<<>>} \cup {<<c>> : c \in Cols} :
        /\ Len(stmt._distinct_on) + Len(expr) <= MaxLegacy
        /\ stmt' = Select_distinct(stmt, expr)
        /\ call' = [op |-> "distinct", raised |-> None]
        /\ UNCHANGED <<fn, agg, applied, constraints, tables>>

\* Another extension puts its own element in the "pre_columns" slot.
Ext_other ==
    /\ \A i \in 1..Len(stmt.pre_columns) : stmt.pre_columns[i] # OtherClause
    /\ stmt' = [stmt EXCEPT !.pre_columns = Append(@, OtherClause)]
    /\ call' = [op |-> "ext_other", raised |-> None]
    /\ UNCHANGED <<fn, agg, applied, constraints, tables>>

NextDistinct == Ext_distinct_on \/ Legacy_distinct \/ Ext_other

SpecDistinct == Init /\ [][NextDistinct]_vars

\* C1: after k >= 1 DistinctOnClause extensions with targets t1..tk applied
\* in that order to a statement without legacy distinct-on columns, the
\* "pre_columns" slot holds exactly one DistinctOnClause and its targets are
\* t1 ++ ... ++ tk, repeated targets kept.
C1_Merged ==
    Len(applied) >= 1 =>
        LET ds == SelectSeq(stmt.pre_columns, isDistinctOnClause)
        IN /\ Len(ds) = 1
           /\ ds[1]._distinct_on = Flatten(applied)

C1_Witness ==
    /\ Len(applied) = 3
    /\ applied[1] = <<"a">>
    /\ applied[2] = <<"a", "b">>
    /\ Len(stmt.pre_columns) = 2
    /\ stmt.pre_columns[2]._distinct_on = <<"a", "a", "b", "a">>

\* C2: apply_to_select on a statement whose legacy distinct-on columns are
\* set raises InvalidRequestError and leaves the statement as it was: the
\* distinct flag and the "pre_columns" slot are unchanged.
C2_Conflict ==
    [][(call'.op = "apply_to_select" /\ stmt._distinct_on # <<>>) =>
          (call'.raised = "InvalidRequestError" /\ stmt' = stmt /\ applied' = applied)]_vars

C2_Witness ==
    /\ call.op = "apply_to_select"
    /\ call.raised = "InvalidRequestError"
    /\ stmt._distinct_on # <<>>
    /\ stmt.pre_columns # <<>>

----------------------------------------------------------------------------
(* ExcludeConstraint                                                        *)

\* coercions.expect_col_expression_collection(DDLConstraintColumnRole, ...):
\* for each expression (resolved expression, column or None, the string or
\* None, what to add to the constraint's columns or None).
expect_col_expression_collection(expressions) ==
    [i \in 1..Len(expressions) |->
        LET expr == expressions[i]
        IN IF expr.kind = "str"
           THEN [expr |-> expr, column |-> NoExpr, strname |-> expr.name,
                 add_element |-> expr]
           ELSE IF expr.kind = "column"
           THEN [expr |-> expr, column |-> expr, strname |-> None,
                 add_element |-> expr]
           ELSE [expr |-> expr, column |-> NoExpr, strname |-> None,
                 add_element |-> NoExpr]]

\* coercions.expect(roles.StatementOptionRole, where): a string becomes a
\* text clause, a clause is kept.
expect_where(where) == IF where = "a > 5" THEN "text(a > 5)" ELSE where

\* The dictionary the loop's assignments self.operators[name] = operator
\* leave: for each name the operator of its last entry.
operators_of(render_exprs) ==
    LET names == {render_exprs[i].name : i \in 1..Len(render_exprs)} \ {None}
        last(n) == CHOOSE i \in 1..Len(render_exprs) :
                      /\ render_exprs[i].name = n
                      /\ \A j \in 1..Len(render_exprs) :
                            render_exprs[j].name = n => j <= i
    IN [n \in names |-> render_exprs[last(n)].operator]

NoConstraint == [kind |-> None]

\* The body of ExcludeConstraint.__init__ once zip(*elements) has unpacked.
ExcludeConstraint_build(coerced, operators, kw) ==
    LET render_exprs ==
            [i \in 1..Len(coerced) |->
                [expr |-> coerced[i].expr,
                 name |-> IF coerced[i].column # NoExpr THEN coerced[i].column.name
                          ELSE coerced[i].strname,
                 operator |-> operators[i]]]
        columns == SelectSeq([i \in 1..Len(coerced) |-> coerced[i].add_element],
                             LAMBDA e : e # NoExpr)
    IN [kind |-> "exclude_constraint",
        _render_exprs |-> render_exprs,
        operators |-> operators_of(render_exprs),
        columns |-> columns,
        name |-> kw_get(kw.name, None),
        deferrable |-> kw_get(kw.deferrable, None),
        initially |-> kw_get(kw.initially, None),
        using |-> kw_get(kw.using, "gist"),
        where |-> IF kw_get(kw.where, None) # None THEN expect_where(kw.where) ELSE None,
        ops |-> kw.ops,
        parent |-> None]

ExcludeConstraint_init_allow_empty(elements, kw) ==
    \* zero elements are unpacked as no expressions and no operators
    [raised |-> None,
     c |-> ExcludeConstraint_build(
               expect_col_expression_collection(
                   [i \in 1..Len(elements) |-> elements[i][1]]),
               [i \in 1..Len(elements) |-> elements[i][2]], kw)]

ExcludeConstraint_init_named_only(elements, kw) ==
    \* render_exprs.append(...) moved under "if name is not None"
    LET built == ExcludeConstraint_build(
                     expect_col_expression_collection(
                         [i \in 1..Len(elements) |-> elements[i][1]]),
                     [i \in 1..Len(elements) |-> elements[i][2]], kw)
    IN IF Len(elements) = 0
       THEN [raised |-> "ValueError", c |-> NoConstraint]
       ELSE [raised |-> None,
             c |-> [built EXCEPT !._render_exprs =
                        SelectSeq(@, LAMBDA r : r.name # None)]]

\* ExcludeConstraint.__init__(self, *elements, **kw): the exception raised, if
\* any, and the constraint built.  "expressions, operators = zip(*elements)"
\* has nothing to unpack when no element is given.
ExcludeConstraint_init(elements, kw) ==
    IF Len(elements) = 0
    THEN [raised |-> "ValueError", c |-> NoConstraint]
    ELSE [raised |-> None,
          c |-> ExcludeConstraint_build(
                    expect_col_expression_collection(
                        [i \in 1..Len(elements) |-> elements[i][1]]),
                    [i \in 1..Len(elements) |-> elements[i][2]], kw)]

\* ColumnCollectionConstraint._set_parent(self, table): the constraint takes
\* the table as its parent and the table takes the constraint.
ColumnCollectionConstraint_set_parent(c, cid, table, tbls) ==
    [c |-> [c EXCEPT !.parent = table],
     tables |-> [tbls EXCEPT ![table] = @ \cup {cid}]]

_set_parent_keep(c, cid, table, tbls) ==
    \* the render list is left as it was built
    LET attached == ColumnCollectionConstraint_set_parent(c, cid, table, tbls)
    IN [raised |-> None, c |-> attached.c, tables |-> attached.tables]

\* ExcludeConstraint._set_parent(self, table): the exception raised, if any,
\* the constraint and the tables as the call leaves them.  table.c[expr]
\* raises KeyError before self._render_exprs is assigned.
_set_parent(c, cid, table, tbls) ==
    LET attached == ColumnCollectionConstraint_set_parent(c, cid, table, tbls)
        render == attached.c._render_exprs
        missing == \E i \in 1..Len(render) :
                       /\ render[i].expr.kind = "str"
                       /\ render[i].expr.name \notin TableCols[table]
    IN IF missing
       THEN [raised |-> "KeyError", c |-> attached.c, tables |-> attached.tables]
       ELSE [raised |-> None,
             c |-> [attached.c EXCEPT !._render_exprs =
                       [i \in 1..Len(render) |->
                           [expr |-> IF render[i].expr.kind # "str" THEN render[i].expr
                                     ELSE Column(table, render[i].expr.name),
                            name |-> render[i].name,
                            operator |-> render[i].operator]]],
             tables |-> attached.tables]

\* schema._copy_expression(expression, source_table, target_table): a column of
\* the source table becomes the target table's column of that name.
_copy_expression(expression, source_table, target_table) ==
    IF source_table = None \/ target_table = None THEN expression
    ELSE IF expression.kind = "column" /\ expression.table = source_table
    THEN Column(target_table, expression.name)
    ELSE expression

\* The keyword arguments _copy hands to the constructor.
_copy_kw(self) ==
    [name |-> self.name, deferrable |-> self.deferrable,
     initially |-> self.initially, where |-> self.where,
     using |-> self.using, ops |-> {}]

\* ExcludeConstraint._copy(self, target_table=None)
_copy(self, target_table) ==
    LET elements ==
            [i \in 1..Len(self._render_exprs) |->
                <<_copy_expression(self._render_exprs[i].expr, self.parent, target_table),
                  self._render_exprs[i].operator>>]
    IN ExcludeConstraint_init(elements, _copy_kw(self))

PairSeqs == SeqsUpTo(Pairs, MaxPairs)

\* The column names a constraint refers to, by string or by Column.
NamesUsed(c) ==
    {c._render_exprs[i].expr.name : i \in 1..Len(c._render_exprs)} \ {None}

\* ExcludeConstraint(*elements, **kw)
Construct ==
    /\ constraints = <<>>
    /\ \E elements \in PairSeqs, kw \in Kws :
        LET r == ExcludeConstraint_init(elements, kw)
        IN /\ constraints' =
                 IF r.raised = None
                 THEN Append(constraints,
                             [obj |-> r.c, elements |-> elements, kw |-> kw, copy_of |-> 0])
                 ELSE constraints
           /\ call' = [op |-> "__init__", raised |-> r.raised, cid |-> 0,
                       table |-> None, n |-> Len(elements), kw |-> kw]
           /\ UNCHANGED <<fn, agg, stmt, applied, tables>>

\* table.append_constraint(constraint), for a constraint that has no parent
\* yet and whose Column objects are the table's own.
SetParent ==
    \E cid \in 1..Len(constraints), table \in TableNames :
        LET c == constraints[cid].obj
            r == _set_parent(c, cid, table, tables)
        IN /\ c.parent = None
           /\ \A i \in 1..Len(c._render_exprs) :
                 c._render_exprs[i].expr.kind = "column" =>
                    c._render_exprs[i].expr.table = table
           /\ constraints' = [constraints EXCEPT ![cid].obj = r.c]
           /\ tables' = r.tables
           /\ call' = [op |-> "_set_parent", raised |-> r.raised, cid |-> cid,
                       table |-> table, n |-> Len(c._render_exprs),
                       kw |-> constraints[cid].kw]
           /\ UNCHANGED <<fn, agg, stmt, applied>>

\* constraint._copy(target_table=...) of the constraint built, made once, as
\* Table.to_metadata calls it: the
\* target table, when given, has the columns the constraint refers to, and
\* the constraint's column names are resolved when it has a parent.
Copy ==
    /\ Len(constraints) = 1
    /\ \E cid \in 1..Len(constraints), target_table \in TableNames \cup {None} :
        LET c == constraints[cid].obj
            r == _copy(c, target_table)
        IN /\ target_table # None => NamesUsed(c) \subseteq TableCols[target_table]
           /\ (c.parent # None /\ target_table # None) =>
                 \A i \in 1..Len(c._render_exprs) : c._render_exprs[i].expr.kind # "str"
           /\ r.raised = None
           /\ constraints' =
                 Append(constraints,
                        [obj |-> r.c,
                         elements |-> [i \in 1..Len(c._render_exprs) |->
                                          <<r.c._render_exprs[i].expr,
                                            c._render_exprs[i].operator>>],
                         kw |-> _copy_kw(c), copy_of |-> cid])
           /\ call' = [op |-> "_copy", raised |-> r.raised, cid |-> cid,
                       table |-> target_table, n |-> Len(c._render_exprs),
                       kw |-> constraints[cid].kw]
           /\ UNCHANGED <<fn, agg, stmt, applied, tables>>

NextExclude == Construct \/ SetParent \/ Copy

SpecExclude == Init /\ [][NextExclude]_vars

----------------------------------------------------------------------------
(* Properties of ExcludeConstraint.                                         *)

RenderOf(cid) == constraints[cid].obj._render_exprs

\* C3 as stated: when _set_parent fails with a lookup error the constraint
\* and the table are unchanged: same render list, no parent, and the table
\* does not carry the constraint.
C3_Atomic ==
    [][(call'.op = "_set_parent" /\ call'.raised = "KeyError") =>
          /\ constraints'[call'.cid].obj._render_exprs = constraints[call'.cid].obj._render_exprs
          /\ constraints'[call'.cid].obj.parent = None
          /\ call'.cid \notin tables'[call'.table]]_vars

\* Before attachment every entry built from a column name is that string.
C4_Before ==
    \A cid \in 1..Len(constraints) :
        constraints[cid].obj.parent = None =>
            \A i \in 1..Len(constraints[cid].elements) :
                constraints[cid].elements[i][1].kind = "str" =>
                    /\ i <= Len(RenderOf(cid))
                    /\ RenderOf(cid)[i].expr = constraints[cid].elements[i][1]

\* A successful _set_parent makes each string entry the table's column of
\* that name and leaves the other entries' expressions alone.
C4_Attach ==
    (call'.op = "_set_parent" /\ call'.raised = None) =>
        LET old == constraints[call'.cid].obj._render_exprs
            new == constraints'[call'.cid].obj._render_exprs
        IN /\ Len(new) = Len(old)
           /\ \A i \in 1..Len(old) :
                 /\ new[i].expr.kind # "str"
                 /\ old[i].expr.kind = "str" =>
                       new[i].expr = [kind |-> "column", name |-> old[i].expr.name,
                                      table |-> call'.table]
                 /\ old[i].expr.kind # "str" => new[i].expr = old[i].expr

\* C4: an entry built from a string column name stays a string in every
\* state before attachment; a successful _set_parent against a table with a
\* column of that name makes it that table's column, leaves no string entry,
\* and leaves the entries that were not strings unchanged.
C4_Deferred == []C4_Before /\ [][C4_Attach]_vars

C4_Witness ==
    /\ call.op = "_set_parent"
    /\ call.raised = None
    /\ Len(constraints[call.cid].elements) = 2
    /\ constraints[call.cid].elements[1][1] = StrName("b")
    /\ constraints[call.cid].elements[2][1] = TextExpr
    /\ RenderOf(call.cid)[1].expr = Column("t1", "b")

\* The render list has one entry per input pair, with the pairs' operators
\* in construction order.
C5_Positional ==
    \A cid \in 1..Len(constraints) :
        /\ Len(RenderOf(cid)) = Len(constraints[cid].elements)
        /\ \A i \in 1..Len(constraints[cid].elements) :
              RenderOf(cid)[i].operator = constraints[cid].elements[i][2]

\* _set_parent changes neither the length, the order, the names nor the
\* operators of the render list.
C5_Attach ==
    call'.op = "_set_parent" =>
        LET old == constraints[call'.cid].obj._render_exprs
            new == constraints'[call'.cid].obj._render_exprs
        IN /\ Len(new) = Len(old)
           /\ \A i \in 1..Len(old) :
                 /\ new[i].name = old[i].name
                 /\ new[i].operator = old[i].operator

\* C5: a constraint built from N pairs has a render list of length N whose
\* entry i carries pair i's operator, and attachment to a table changes
\* neither the length, the order, the names nor the operators.
C5_Order == []C5_Positional /\ [][C5_Attach]_vars

C5_Witness ==
    /\ call.op = "_set_parent"
    /\ call.raised = None
    /\ Len(constraints[call.cid].elements) = 2
    /\ constraints[call.cid].elements[1] = <<TextExpr, "=">>
    /\ constraints[call.cid].elements[2] = <<StrName("a"), "&&">>
    /\ RenderOf(call.cid)[1].operator = "="
    /\ RenderOf(call.cid)[2].operator = "&&"

\* C6 as stated: the constraint _copy returns has the original's name,
\* deferrable, initially, using, where and ops, and a render list of the
\* same length with the same operators in the same order.
C6_CopyEqual ==
    \A cid \in 1..Len(constraints) :
        constraints[cid].copy_of # 0 =>
            LET c == constraints[cid].obj
                o == constraints[constraints[cid].copy_of].obj
            IN /\ c.name = o.name
               /\ c.deferrable = o.deferrable
               /\ c.initially = o.initially
               /\ c.using = o.using
               /\ c.where = o.where
               /\ c.ops = o.ops
               /\ Len(c._render_exprs) = Len(o._render_exprs)
               /\ \A i \in 1..Len(o._render_exprs) :
                     c._render_exprs[i].operator = o._render_exprs[i].operator

\* C10 as stated: ExcludeConstraint() with zero pairs does not raise and
\* builds a constraint with an empty render list, an empty operators mapping
\* and, no using being given, using "gist".
C10_AsStated ==
    (call.op = "__init__" /\ call.n = 0) =>
        /\ call.raised = None
        /\ Len(constraints) >= 1
        /\ constraints[Len(constraints)].obj._render_exprs = <<>>
        /\ constraints[Len(constraints)].obj.operators = <<>>
        /\ (call.kw.using = Absent => constraints[Len(constraints)].obj.using = "gist")

\* C10 amended: ExcludeConstraint() with zero pairs is not permitted: the
\* constructor raises ValueError (zip(*elements) has nothing to unpack) and
\* no constraint is built; a constraint that is built has at least one
\* render-list entry, and its using is "gist" when none was given.
C10_Empty ==
    /\ (call.op = "__init__" /\ call.n = 0) =>
          (call.raised = "ValueError" /\ constraints = <<>>)
    /\ \A cid \in 1..Len(constraints) :
          /\ Len(RenderOf(cid)) >= 1
          /\ constraints[cid].kw.using = Absent =>
                constraints[cid].obj.using = "gist"

C10_Witness ==
    /\ call.op = "__init__"
    /\ call.n = 0
    /\ call.raised = "ValueError"
    /\ call.kw.using = Absent

====
